---------------------------- MODULE Spec2Model ----------------------------
(***************************************************************************)
(* IAM access review Lambda (src/Lambda/access_review.py): the risk        *)
(* classifier calculate_risk, the suppression decision should_alert, the   *)
(* state write save_alert_state and the run coordinator lambda_handler,    *)
(* over an S3 bucket holding the per-user alert state ("alerts/<user>.json")*)
(* and the per-day CSV reports, an IAM user listing and an SNS topic.      *)
(*                                                                         *)
(* Time is counted in ticks, TicksPerDay ticks to a day; instants are      *)
(* integers (negative = before the model's epoch).  timedelta.days is      *)
(* floor division by TicksPerDay.                                          *)
(***************************************************************************)
EXTENDS Integers, Sequences, FiniteSets, TLC

VARIABLES
    clock,        \* datetime.now(timezone.utc), in ticks
    alerts,       \* bucket objects under ALERT_STATE_PREFIX: key -> body
    reports,      \* bucket objects "access_review_<date>.csv": key -> body
    invocations,  \* number of lambda_handler invocations started so far
    pc,           \* per invocation: position in lambda_handler
    now,          \* lambda_handler local `now`
    users,        \* lambda_handler local `users`
    idx,          \* position of the `for user in users` loop (1-based)
    days_unused,  \* lambda_handler local `days_unused`
    severity,     \* lambda_handler local `severity`
    high,         \* lambda_handler local `high`
    medium,       \* lambda_handler local `medium`
    report_rows,  \* lambda_handler local `report_rows`
    exception,    \* the call that raised in this invocation ("" = none)
    decisions,    \* history: <<username, outcome>> per loop iteration
    calls         \* history: external calls made by this invocation

vars == <<clock, alerts, reports, invocations, pc, now, users, idx,
          days_unused, severity, high, medium, report_rows, exception,
          decisions, calls>>

---------------------------------------------------------------------------
(* Bounds of the model *)

TicksPerDay == 2
MaxClock == 2
MaxInvocations == 2
MaxDays == 9

(* Program constants *)

SUPPRESSION_DAYS == 7

ALERT_STATE_PREFIX == "alerts/"

Usernames == {"alice", "bob"}

\* Execution environments of the function: one invocation at a time each
Procs == {1, 2}

---------------------------------------------------------------------------
(* Time *)

\* timedelta.days of (a - b): whole days, rounded towards minus infinity
Days(a, b) == (a - b) \div TicksPerDay

\* datetime.isoformat() / datetime.fromisoformat(): the instant as a string
isoformat(t) == [iso |-> TRUE, instant |-> t]

\* a last_alerted string that datetime.fromisoformat() rejects
NotIsoFormat == [iso |-> FALSE, instant |-> 0]

\* now.date().isoformat(): the UTC calendar day of an instant
date(t) == t \div TicksPerDay

---------------------------------------------------------------------------
(* calculate_risk *)

\* calculate_risk with `>` for `>=`
calculate_risk_exclusive(d) ==
    IF d > 180 THEN <<"HIGH", "red">>
    ELSE IF d > 90 THEN <<"MEDIUM", "orange">>
    ELSE <<"LOW", "green">>

calculate_risk(d) ==
    IF d >= 180 THEN <<"HIGH", "red">>
    ELSE IF d >= 90 THEN <<"MEDIUM", "orange">>
    ELSE <<"LOW", "green">>

---------------------------------------------------------------------------
(* The bucket *)

_alert_state_key(username) == <<ALERT_STATE_PREFIX, username, ".json">>

csv_key(t) == <<"access_review_", date(t), ".csv">>

\* Bodies of alert-state objects.  A body written by save_alert_state is
\* AlertState(t, s); the others are bodies json.loads or the field reads of
\* should_alert reject.
AlertState(t, s) == [json |-> TRUE, has_last_alerted |-> TRUE,
                     last_alerted |-> isoformat(t),
                     has_severity |-> TRUE, severity |-> s]

Unparsable == [json |-> FALSE, has_last_alerted |-> FALSE,
               last_alerted |-> NotIsoFormat,
               has_severity |-> FALSE, severity |-> ""]

MissingSeverity(t) == [json |-> TRUE, has_last_alerted |-> TRUE,
                       last_alerted |-> isoformat(t),
                       has_severity |-> FALSE, severity |-> ""]

BadTimestamp(s) == [json |-> TRUE, has_last_alerted |-> TRUE,
                    last_alerted |-> NotIsoFormat,
                    has_severity |-> TRUE, severity |-> s]

\* s3.put_object(Key=k, Body=b) on a key -> body map
put_object(objects, k, b) ==
    [x \in DOMAIN objects \cup {k} |-> IF x = k THEN b ELSE objects[x]]


---------------------------------------------------------------------------
(* Inputs *)

\* PasswordLastUsed values the listing may report: one tick short of the
\* MEDIUM and of the HIGH threshold at instant 0
LastUsedStamps == {1 - 90 * TicksPerDay, 1 - 180 * TicksPerDay}

\* An entry of response["Users"]; PasswordLastUsed is absent for a user
\* who never used a password
UserRecords ==
    {[UserName |-> u] : u \in Usernames}
    \cup {[UserName |-> u, PasswordLastUsed |-> t] :
              u \in Usernames, t \in LastUsedStamps}

\* iam.list_users() responses: user names are unique within an account
Listings ==
    {l \in UNION {[1..n -> UserRecords] : n \in 0..Cardinality(Usernames)} :
        \A i, j \in DOMAIN l : i # j => l[i].UserName # l[j].UserName}

\* last_alerted instants of the alert states found in the bucket at the
\* start: half a day short of the suppression window, and three days old
InitStamps == {1 - SUPPRESSION_DAYS * TicksPerDay, 0 - 3 * TicksPerDay}

\* Bodies the bucket may hold under an alert-state key at the start
InitBodies ==
    {AlertState(t, s) : t \in InitStamps, s \in {"MEDIUM", "HIGH"}}
    \cup {Unparsable, BadTimestamp("MEDIUM")}
    \cup {MissingSeverity(t) : t \in {0 - 3 * TicksPerDay}}

---------------------------------------------------------------------------
(* should_alert and save_alert_state *)

\* the order of the severities
Rank(s) == CASE s = "HIGH" -> 2 [] s = "MEDIUM" -> 1 [] OTHER -> 0

\* should_alert with a suppression window one day shorter
should_alert_short_window(username, sev) ==
    LET key == _alert_state_key(username) IN
    IF key \notin DOMAIN alerts THEN "True"
    ELSE LET data == alerts[key] IN
         IF ~data.json THEN "Raise"
         ELSE IF ~data.has_last_alerted \/ ~data.last_alerted.iso THEN "Raise"
         ELSE IF ~data.has_severity THEN "Raise"
         ELSE IF sev # data.severity THEN "True"
         ELSE IF Days(clock, data.last_alerted.instant) >= SUPPRESSION_DAYS - 1
              THEN "True"
              ELSE "False"

\* should_alert with `>` for `>=` in the window test
should_alert_strict(username, sev) ==
    LET key == _alert_state_key(username) IN
    IF key \notin DOMAIN alerts THEN "True"
    ELSE LET data == alerts[key] IN
         IF ~data.json THEN "Raise"
         ELSE IF ~data.has_last_alerted \/ ~data.last_alerted.iso THEN "Raise"
         ELSE IF ~data.has_severity THEN "Raise"
         ELSE IF sev # data.severity THEN "True"
         ELSE IF Days(clock, data.last_alerted.instant) > SUPPRESSION_DAYS
              THEN "True"
         ELSE "False"

\* should_alert comparing the severities by order: only an increase alerts
should_alert_increase_only(username, sev) ==
    LET key == _alert_state_key(username) IN
    IF key \notin DOMAIN alerts THEN "True"
    ELSE LET data == alerts[key] IN
         IF ~data.json THEN "Raise"
         ELSE IF ~data.has_last_alerted \/ ~data.last_alerted.iso THEN "Raise"
         ELSE IF ~data.has_severity THEN "Raise"
         ELSE IF Rank(sev) > Rank(data.severity) THEN "True"
         ELSE IF Days(clock, data.last_alerted.instant) >= SUPPRESSION_DAYS
              THEN "True"
         ELSE "False"

\* should_alert without the `except s3.exceptions.NoSuchKey` clause
should_alert_no_except(username, sev) ==
    LET key == _alert_state_key(username) IN
    IF key \notin DOMAIN alerts THEN "Raise"
    ELSE LET data == alerts[key] IN
         IF ~data.json THEN "Raise"
         ELSE IF ~data.has_last_alerted \/ ~data.last_alerted.iso THEN "Raise"
         ELSE IF ~data.has_severity THEN "Raise"
         ELSE IF sev # data.severity THEN "True"
         ELSE IF Days(clock, data.last_alerted.instant) >= SUPPRESSION_DAYS
              THEN "True"
         ELSE "False"

\* should_alert with `except Exception` for `except NoSuchKey`: any failure
\* on the stored body counts as no previous alert
should_alert_except_all(username, sev) ==
    LET key == _alert_state_key(username) IN
    IF key \notin DOMAIN alerts THEN "True"
    ELSE LET data == alerts[key] IN
         IF ~data.json THEN "True"
         ELSE IF ~data.has_last_alerted \/ ~data.last_alerted.iso THEN "True"
         ELSE IF ~data.has_severity THEN "True"
         ELSE IF sev # data.severity THEN "True"
         ELSE IF Days(clock, data.last_alerted.instant) >= SUPPRESSION_DAYS
              THEN "True"
         ELSE "False"

\* should_alert(username, severity): "True", "False", or "Raise" when an
\* exception other than NoSuchKey leaves the function
should_alert(username, sev) ==
    LET key == _alert_state_key(username) IN
    IF key \notin DOMAIN alerts THEN "True"
    ELSE LET data == alerts[key] IN
         IF ~data.json THEN "Raise"
         ELSE IF ~data.has_last_alerted \/ ~data.last_alerted.iso THEN "Raise"
         ELSE IF ~data.has_severity THEN "Raise"
         ELSE IF sev # data.severity THEN "True"
         ELSE IF Days(clock, data.last_alerted.instant) >= SUPPRESSION_DAYS
              THEN "True"
         ELSE "False"

\* save_alert_state that leaves an existing alert state in place
save_alert_state_keep_first(username, sev) ==
    IF _alert_state_key(username) \in DOMAIN alerts
    THEN alerts
    ELSE put_object(alerts, _alert_state_key(username), AlertState(clock, sev))

\* the bucket after save_alert_state(username, severity)
save_alert_state(username, sev) ==
    put_object(alerts, _alert_state_key(username), AlertState(clock, sev))

---------------------------------------------------------------------------
(* lambda_handler *)

Call(op, key, body, ok) == [op |-> op, key |-> key, body |-> body, ok |-> ok]

Running(p) == pc[p] \notin {"idle", "done", "raised"}

user(p) == users[p][idx[p]]

\* DaysUnused without the sentinel: a user who never used a password counts
\* as used just now
DaysUnused_no_sentinel(p) ==
    IF "PasswordLastUsed" \notin DOMAIN user(p)
    THEN 0
    ELSE Days(now[p], user(p).PasswordLastUsed)

\* days_unused of the loop's current user
DaysUnused(p) ==
    IF "PasswordLastUsed" \notin DOMAIN user(p)
    THEN 999
    ELSE Days(now[p], user(p).PasswordLastUsed)

\* the summary line of the loop's current user
line(p) == <<user(p).UserName, days_unused[p], calculate_risk(days_unused[p])[2]>>

\* the CSV body: the header row, then report_rows
csv_body(rows) == <<<<"Username", "DaysUnused", "Severity">>>> \o rows

\* subject and message of the summary e-mail
summary(p) ==
    [high_count |-> Len(high[p]), medium_count |-> Len(medium[p]),
     high_lines |-> IF high[p] = <<>> THEN <<<<"None">>>> ELSE high[p],
     medium_lines |-> IF medium[p] = <<>> THEN <<<<"None">>>> ELSE medium[p],
     csv_key |-> csv_key(now[p])]

Init ==
    /\ clock = 0
    /\ \E S \in SUBSET Usernames :
         \E f \in [S -> InitBodies] :
            alerts = [k \in {_alert_state_key(u) : u \in S} |-> f[k[2]]]
    /\ reports = <<>>
    /\ invocations = 0
    /\ pc = [p \in Procs |-> "idle"]
    /\ now = [p \in Procs |-> 0]
    /\ users = [p \in Procs |-> <<>>]
    /\ idx = [p \in Procs |-> 1]
    /\ days_unused = [p \in Procs |-> 0]
    /\ severity = [p \in Procs |-> ""]
    /\ high = [p \in Procs |-> <<>>]
    /\ medium = [p \in Procs |-> <<>>]
    /\ report_rows = [p \in Procs |-> <<>>]
    /\ exception = [p \in Procs |-> ""]
    /\ decisions = [p \in Procs |-> <<>>]
    /\ calls = [p \in Procs |-> <<>>]

\* The Lambda runtime invokes lambda_handler in the first execution
\* environment that is free: now = datetime.now(utc)
Invoke(p) ==
    /\ pc[p] = "idle"
    /\ \A q \in Procs : q < p => pc[q] # "idle"
    /\ invocations < MaxInvocations
    /\ invocations' = invocations + 1
    /\ pc' = [pc EXCEPT ![p] = "list_users"]
    /\ now' = [now EXCEPT ![p] = clock]
    /\ UNCHANGED <<clock, alerts, reports, users, idx, days_unused, severity,
                   high, medium, report_rows, exception, decisions, calls>>

\* iam.list_users() answers; high, medium and report_rows start empty
ListUsers(p) ==
    /\ pc[p] = "list_users"
    /\ \E l \in Listings : users' = [users EXCEPT ![p] = l]
    /\ idx' = [idx EXCEPT ![p] = 1]
    /\ high' = [high EXCEPT ![p] = <<>>]
    /\ medium' = [medium EXCEPT ![p] = <<>>]
    /\ report_rows' = [report_rows EXCEPT ![p] = <<>>]
    /\ calls' = [calls EXCEPT ![p] = Append(@, Call("list_users", <<>>, <<>>, TRUE))]
    /\ pc' = [pc EXCEPT ![p] = "loop"]
    /\ UNCHANGED <<clock, alerts, reports, invocations, now, days_unused,
                   severity, exception, decisions>>

\* a failed listing taken for an empty one: the invocation goes on
ListUsersFail_goes_on(p) ==
    /\ pc[p] = "list_users"
    /\ exception' = [exception EXCEPT ![p] = "list_users"]
    /\ calls' = [calls EXCEPT ![p] = Append(@, Call("list_users", <<>>, <<>>, FALSE))]
    /\ users' = [users EXCEPT ![p] = <<>>]
    /\ idx' = [idx EXCEPT ![p] = 1]
    /\ pc' = [pc EXCEPT ![p] = "loop"]
    /\ UNCHANGED <<clock, alerts, reports, invocations, now,
                   days_unused, severity, high, medium, report_rows, decisions>>

\* iam.list_users() raises: the exception leaves lambda_handler
ListUsersFail(p) ==
    /\ pc[p] = "list_users"
    /\ exception' = [exception EXCEPT ![p] = "list_users"]
    /\ calls' = [calls EXCEPT ![p] = Append(@, Call("list_users", <<>>, <<>>, FALSE))]
    /\ pc' = [pc EXCEPT ![p] = "raised"]
    /\ UNCHANGED <<clock, alerts, reports, invocations, now, users, idx,
                   days_unused, severity, high, medium, report_rows, decisions>>

\* the loop head without the `continue` for LOW: a LOW user goes on to
\* should_alert like the others
SkipLow_no_continue(p) ==
    /\ pc[p] = "loop"
    /\ idx[p] <= Len(users[p])
    /\ calculate_risk(DaysUnused(p))[1] = "LOW"
    /\ days_unused' = [days_unused EXCEPT ![p] = DaysUnused(p)]
    /\ severity' = [severity EXCEPT ![p] = calculate_risk(DaysUnused(p))[1]]
    /\ decisions' = [decisions EXCEPT ![p] = Append(@, <<user(p).UserName, "LOW">>)]
    /\ pc' = [pc EXCEPT ![p] = "should_alert"]
    /\ UNCHANGED <<clock, alerts, reports, invocations, now, users, idx, high,
                   medium, report_rows, exception, calls>>

\* One pass of the loop head for a LOW user: days_unused, calculate_risk,
\* `continue`
SkipLow(p) ==
    /\ pc[p] = "loop"
    /\ idx[p] <= Len(users[p])
    /\ calculate_risk(DaysUnused(p))[1] = "LOW"
    /\ days_unused' = [days_unused EXCEPT ![p] = DaysUnused(p)]
    /\ severity' = [severity EXCEPT ![p] = calculate_risk(DaysUnused(p))[1]]
    /\ decisions' = [decisions EXCEPT ![p] = Append(@, <<user(p).UserName, "LOW">>)]
    /\ idx' = [idx EXCEPT ![p] = @ + 1]
    /\ UNCHANGED <<clock, alerts, reports, invocations, pc, now, users, high,
                   medium, report_rows, exception, calls>>

\* The loop head for a MEDIUM or HIGH user: days_unused, calculate_risk,
\* then should_alert is about to be called
Classify(p) ==
    /\ pc[p] = "loop"
    /\ idx[p] <= Len(users[p])
    /\ calculate_risk(DaysUnused(p))[1] # "LOW"
    /\ days_unused' = [days_unused EXCEPT ![p] = DaysUnused(p)]
    /\ severity' = [severity EXCEPT ![p] = calculate_risk(DaysUnused(p))[1]]
    /\ pc' = [pc EXCEPT ![p] = "should_alert"]
    /\ UNCHANGED <<clock, alerts, reports, invocations, now, users, idx, high,
                   medium, report_rows, exception, decisions, calls>>

\* AlertTrue appending the summary line to `high` whatever the severity
AlertTrue_all_high(p) ==
    /\ pc[p] = "should_alert"
    /\ should_alert(user(p).UserName, severity[p]) = "True"
    /\ calls' = [calls EXCEPT ![p] =
                   Append(@, Call("get_object", _alert_state_key(user(p).UserName),
                                  <<>>, TRUE))]
    /\ decisions' = [decisions EXCEPT ![p] = Append(@, <<user(p).UserName, "True">>)]
    /\ report_rows' = [report_rows EXCEPT ![p] =
                         Append(@, <<user(p).UserName, days_unused[p], severity[p]>>)]
    /\ high' = [high EXCEPT ![p] = Append(@, line(p))]
    /\ pc' = [pc EXCEPT ![p] = "save_alert_state"]
    /\ UNCHANGED <<clock, alerts, reports, invocations, now, users, idx,
                   days_unused, severity, exception, medium>>

\* should_alert returns True: the report row and the summary line are
\* appended, save_alert_state is about to be called
AlertTrue(p) ==
    /\ pc[p] = "should_alert"
    /\ should_alert(user(p).UserName, severity[p]) = "True"
    /\ calls' = [calls EXCEPT ![p] =
                   Append(@, Call("get_object", _alert_state_key(user(p).UserName),
                                  <<>>, TRUE))]
    /\ decisions' = [decisions EXCEPT ![p] = Append(@, <<user(p).UserName, "True">>)]
    /\ report_rows' = [report_rows EXCEPT ![p] =
                         Append(@, <<user(p).UserName, days_unused[p], severity[p]>>)]
    /\ high' = [high EXCEPT ![p] =
                  IF severity[p] = "HIGH" THEN Append(@, line(p)) ELSE @]
    /\ medium' = [medium EXCEPT ![p] =
                    IF severity[p] = "HIGH" THEN @ ELSE Append(@, line(p))]
    /\ pc' = [pc EXCEPT ![p] = "save_alert_state"]
    /\ UNCHANGED <<clock, alerts, reports, invocations, now, users, idx,
                   days_unused, severity, exception>>

\* AlertFalse refreshing the stored alert state of the suppressed user
AlertFalse_refresh(p) ==
    /\ pc[p] = "should_alert"
    /\ should_alert(user(p).UserName, severity[p]) = "False"
    /\ calls' = [calls EXCEPT ![p] =
                   Append(@, Call("get_object", _alert_state_key(user(p).UserName),
                                  <<>>, TRUE))]
    /\ decisions' = [decisions EXCEPT ![p] = Append(@, <<user(p).UserName, "False">>)]
    /\ alerts' = save_alert_state(user(p).UserName, severity[p])
    /\ idx' = [idx EXCEPT ![p] = @ + 1]
    /\ pc' = [pc EXCEPT ![p] = "loop"]
    /\ UNCHANGED <<clock, reports, invocations, now, users, days_unused,
                   severity, high, medium, report_rows, exception>>

\* should_alert returns False: `continue`
AlertFalse(p) ==
    /\ pc[p] = "should_alert"
    /\ should_alert(user(p).UserName, severity[p]) = "False"
    /\ calls' = [calls EXCEPT ![p] =
                   Append(@, Call("get_object", _alert_state_key(user(p).UserName),
                                  <<>>, TRUE))]
    /\ decisions' = [decisions EXCEPT ![p] = Append(@, <<user(p).UserName, "False">>)]
    /\ idx' = [idx EXCEPT ![p] = @ + 1]
    /\ pc' = [pc EXCEPT ![p] = "loop"]
    /\ UNCHANGED <<clock, alerts, reports, invocations, now, users, days_unused,
                   severity, high, medium, report_rows, exception>>

\* json.loads, a field read or fromisoformat raises inside should_alert on
\* the stored body: only NoSuchKey is caught, so the exception leaves
\* should_alert, and lambda_handler, which has no handler either
AlertRaise(p) ==
    /\ pc[p] = "should_alert"
    /\ should_alert(user(p).UserName, severity[p]) = "Raise"
    /\ calls' = [calls EXCEPT ![p] =
                   Append(@, Call("get_object", _alert_state_key(user(p).UserName),
                                  <<>>, TRUE))]
    /\ decisions' = [decisions EXCEPT ![p] = Append(@, <<user(p).UserName, "Raise">>)]
    /\ exception' = [exception EXCEPT ![p] = "should_alert"]
    /\ pc' = [pc EXCEPT ![p] = "raised"]
    /\ UNCHANGED <<clock, alerts, reports, invocations, now, users, idx,
                   days_unused, severity, high, medium, report_rows>>

\* s3.get_object raises an error other than NoSuchKey (the bucket is
\* unreachable): as AlertRaise
GetObjectFail(p) ==
    /\ pc[p] = "should_alert"
    /\ calls' = [calls EXCEPT ![p] =
                   Append(@, Call("get_object", _alert_state_key(user(p).UserName),
                                  <<>>, FALSE))]
    /\ decisions' = [decisions EXCEPT ![p] = Append(@, <<user(p).UserName, "Raise">>)]
    /\ exception' = [exception EXCEPT ![p] = "get_object"]
    /\ pc' = [pc EXCEPT ![p] = "raised"]
    /\ UNCHANGED <<clock, alerts, reports, invocations, now, users, idx,
                   days_unused, severity, high, medium, report_rows>>

\* SaveAlertState that decides again before it writes, and leaves the
\* bucket as it is when another invocation has written in between
SaveAlertState_recheck(p) ==
    /\ pc[p] = "save_alert_state"
    /\ alerts' = IF should_alert(user(p).UserName, severity[p]) = "True"
                 THEN save_alert_state(user(p).UserName, severity[p])
                 ELSE alerts
    /\ calls' = [calls EXCEPT ![p] =
                   Append(@, Call("put_object", _alert_state_key(user(p).UserName),
                                  AlertState(clock, severity[p]), TRUE))]
    /\ idx' = [idx EXCEPT ![p] = @ + 1]
    /\ pc' = [pc EXCEPT ![p] = "loop"]
    /\ UNCHANGED <<clock, reports, invocations, now, users, days_unused,
                   severity, high, medium, report_rows, exception, decisions>>


\* save_alert_state(username, severity) puts the new alert state; the loop
\* goes on to the next user
SaveAlertState(p) ==
    /\ pc[p] = "save_alert_state"
    /\ alerts' = save_alert_state(user(p).UserName, severity[p])
    /\ calls' = [calls EXCEPT ![p] =
                   Append(@, Call("put_object", _alert_state_key(user(p).UserName),
                                  AlertState(clock, severity[p]), TRUE))]
    /\ idx' = [idx EXCEPT ![p] = @ + 1]
    /\ pc' = [pc EXCEPT ![p] = "loop"]
    /\ UNCHANGED <<clock, reports, invocations, now, users, days_unused,
                   severity, high, medium, report_rows, exception, decisions>>

\* s3.put_object raises inside save_alert_state: the exception leaves
\* lambda_handler
SaveAlertStateFail(p) ==
    /\ pc[p] = "save_alert_state"
    /\ calls' = [calls EXCEPT ![p] =
                   Append(@, Call("put_object", _alert_state_key(user(p).UserName),
                                  AlertState(clock, severity[p]), FALSE))]
    /\ exception' = [exception EXCEPT ![p] = "save_alert_state"]
    /\ pc' = [pc EXCEPT ![p] = "raised"]
    /\ UNCHANGED <<clock, alerts, reports, invocations, now, users, idx,
                   days_unused, severity, high, medium, report_rows, decisions>>

\* After the loop: the CSV report is put under the key of now's date
WriteReport(p) ==
    /\ pc[p] = "loop"
    /\ idx[p] > Len(users[p])
    /\ reports' = put_object(reports, csv_key(now[p]), csv_body(report_rows[p]))
    /\ calls' = [calls EXCEPT ![p] =
                   Append(@, Call("put_object", csv_key(now[p]),
                                  csv_body(report_rows[p]), TRUE))]
    /\ pc' = [pc EXCEPT ![p] = "publish"]
    /\ UNCHANGED <<clock, alerts, invocations, now, users, idx, days_unused,
                   severity, high, medium, report_rows, exception, decisions>>

\* s3.put_object of the report raises: the exception leaves lambda_handler
WriteReportFail(p) ==
    /\ pc[p] = "loop"
    /\ idx[p] > Len(users[p])
    /\ calls' = [calls EXCEPT ![p] =
                   Append(@, Call("put_object", csv_key(now[p]),
                                  csv_body(report_rows[p]), FALSE))]
    /\ exception' = [exception EXCEPT ![p] = "put_report"]
    /\ pc' = [pc EXCEPT ![p] = "raised"]
    /\ UNCHANGED <<clock, alerts, reports, invocations, now, users, idx,
                   days_unused, severity, high, medium, report_rows, decisions>>

\* sns.publish of the summary; lambda_handler returns statusCode 200
Publish(p) ==
    /\ pc[p] = "publish"
    /\ calls' = [calls EXCEPT ![p] =
                   Append(@, Call("publish", <<>>, summary(p), TRUE))]
    /\ pc' = [pc EXCEPT ![p] = "done"]
    /\ UNCHANGED <<clock, alerts, reports, invocations, now, users, idx,
                   days_unused, severity, high, medium, report_rows, exception,
                   decisions>>

\* sns.publish raises: the exception leaves lambda_handler
PublishFail(p) ==
    /\ pc[p] = "publish"
    /\ calls' = [calls EXCEPT ![p] =
                   Append(@, Call("publish", <<>>, summary(p), FALSE))]
    /\ exception' = [exception EXCEPT ![p] = "publish"]
    /\ pc' = [pc EXCEPT ![p] = "raised"]
    /\ UNCHANGED <<clock, alerts, reports, invocations, now, users, idx,
                   days_unused, severity, high, medium, report_rows, decisions>>

\* The invocation is over (returned or raised): its frame is dropped
Return(p) ==
    /\ pc[p] \in {"done", "raised"}
    /\ pc' = [pc EXCEPT ![p] = "idle"]
    /\ now' = [now EXCEPT ![p] = 0]
    /\ users' = [users EXCEPT ![p] = <<>>]
    /\ idx' = [idx EXCEPT ![p] = 1]
    /\ days_unused' = [days_unused EXCEPT ![p] = 0]
    /\ severity' = [severity EXCEPT ![p] = ""]
    /\ high' = [high EXCEPT ![p] = <<>>]
    /\ medium' = [medium EXCEPT ![p] = <<>>]
    /\ report_rows' = [report_rows EXCEPT ![p] = <<>>]
    /\ exception' = [exception EXCEPT ![p] = ""]
    /\ decisions' = [decisions EXCEPT ![p] = <<>>]
    /\ calls' = [calls EXCEPT ![p] = <<>>]
    /\ UNCHANGED <<clock, alerts, reports, invocations>>

\* Time passes.  The function's timeout (60 s) is shorter than a tick, so
\* at most one tick boundary falls inside an invocation.
Tick ==
    /\ clock < MaxClock
    /\ \A p \in Procs : Running(p) => clock = now[p]
    /\ clock' = clock + 1
    /\ UNCHANGED <<alerts, reports, invocations, pc, now, users, idx,
                   days_unused, severity, high, medium, report_rows, exception,
                   decisions, calls>>

\* Invocations do not overlap: the rule fires once a day and the function
\* ends within its timeout
NoOtherInvocation(p) == \A q \in Procs \ {p} : pc[q] = "idle"

Next ==
    \/ Tick
    \/ \E p \in Procs :
        \/ NoOtherInvocation(p) /\ Invoke(p)
        \/ ListUsers(p)
        \/ ListUsersFail(p)
        \/ SkipLow(p)
        \/ Classify(p)
        \/ AlertTrue(p)
        \/ AlertFalse(p)
        \/ AlertRaise(p)
        \/ GetObjectFail(p)
        \/ SaveAlertState(p)
        \/ SaveAlertStateFail(p)
        \/ WriteReport(p)
        \/ WriteReportFail(p)
        \/ Publish(p)
        \/ PublishFail(p)
        \/ Return(p)

Spec == Init /\ [][Next]_vars

---------------------------------------------------------------------------
(* Vocabulary of the properties *)

\* the stored alert state of username, when the bucket holds one
stored(username) == alerts[_alert_state_key(username)]

HasState(username) == _alert_state_key(username) \in DOMAIN alerts

\* the stored body is one save_alert_state writes: parsable, both fields
WellFormed(username) ==
    /\ HasState(username)
    /\ stored(username).json
    /\ stored(username).has_last_alerted
    /\ stored(username).last_alerted.iso
    /\ stored(username).has_severity

\* whole days between the current time and the stored last_alerted
Elapsed(username) == Days(clock, stored(username).last_alerted.instant)

\* this step is invocation p's call of should_alert, with the bucket
\* answering the get_object (an object or NoSuchKey)
Decides(p) ==
    /\ pc[p] = "should_alert"
    /\ pc'[p] # "should_alert"
    /\ exception'[p] # "get_object"

\* ... and what the call returned to lambda_handler
ReturnsTrue(p) ==
    /\ pc'[p] = "save_alert_state"
    /\ exception'[p] = ""
    /\ decisions'[p] = Append(decisions[p], <<user(p).UserName, "True">>)

ReturnsFalse(p) ==
    /\ pc'[p] = "loop"
    /\ exception'[p] = ""
    /\ idx'[p] = idx[p] + 1
    /\ decisions'[p] = Append(decisions[p], <<user(p).UserName, "False">>)
    /\ report_rows'[p] = report_rows[p]

\* C1: with a stored alert state of the same severity as the one computed,
\* should_alert returns False when fewer whole days than SUPPRESSION_DAYS
\* lie between the stored last_alerted and the current time, and True when
\* at least SUPPRESSION_DAYS do.
C1_SuppressionWindow ==
    [][\A p \in Procs :
          (/\ Decides(p)
           /\ WellFormed(user(p).UserName)
           /\ stored(user(p).UserName).severity = severity[p])
          => IF Elapsed(user(p).UserName) < SUPPRESSION_DAYS
             THEN ReturnsFalse(p)
             ELSE ReturnsTrue(p)]_vars

\* An invocation that suppressed one user with a same-severity state inside
\* the window stands after should_alert returned True for another whose
\* same-severity state is exactly SUPPRESSION_DAYS whole days old.
C1_Witness ==
    \E p \in Procs :
        /\ pc[p] = "save_alert_state"
        /\ WellFormed(user(p).UserName)
        /\ stored(user(p).UserName).severity = severity[p]
        /\ Elapsed(user(p).UserName) = SUPPRESSION_DAYS
        /\ \E i \in DOMAIN decisions[p] : decisions[p][i][2] = "False"

C3_FirstObservationEmits ==
    [][\A p \in Procs :
          (/\ Decides(p)
           /\ ~HasState(user(p).UserName))
          => /\ severity[p] \in {"MEDIUM", "HIGH"}
             /\ ReturnsTrue(p)]_vars

\* should_alert returned True for a user without a stored alert state.
C3_Witness ==
    \E p \in Procs :
        /\ pc[p] = "save_alert_state"
        /\ ~HasState(user(p).UserName)
        /\ exception[p] = ""

---------------------------------------------------------------------------
\* usernames of the report rows, of the summary lines and of the alert-state
\* objects an invocation asked the bucket for (get or put, served or not)
RowUsers(p) == {report_rows[p][j][1] : j \in DOMAIN report_rows[p]}

LineUsers(p) == {high[p][j][1] : j \in DOMAIN high[p]}
                \cup {medium[p][j][1] : j \in DOMAIN medium[p]}

StateCallUsers(p) ==
    {calls[p][j].key[2] :
        j \in {k \in DOMAIN calls[p] :
                  /\ calls[p][k].op \in {"get_object", "put_object"}
                  /\ calls[p][k].key[1] = ALERT_STATE_PREFIX}}

\* users with the given outcome in this invocation
Decided(p, outcome) ==
    {decisions[p][i][1] :
        i \in {k \in DOMAIN decisions[p] : decisions[p][k][2] = outcome}}

\* the loop is at a user whom calculate_risk classifies LOW
AtLow(p) ==
    /\ pc[p] = "loop"
    /\ idx[p] <= Len(users[p])
    /\ DaysUnused(p) < 90

\* C4: a user classified LOW gets no report row and no summary line, the
\* bucket is neither asked for nor given its alert state, and the loop
\* iteration that classifies it leaves every stored alert state as it was.
C4_LowInvisible ==
    /\ [](\A p \in Procs : \A u \in Decided(p, "LOW") :
             /\ u \notin RowUsers(p)
             /\ u \notin LineUsers(p)
             /\ u \notin StateCallUsers(p))
    /\ [][\A p \in Procs :
             AtLow(p) /\ idx'[p] # idx[p] =>
                /\ decisions'[p] = Append(decisions[p], <<user(p).UserName, "LOW">>)
                /\ pc'[p] = "loop"
                /\ UNCHANGED <<alerts, reports, report_rows, high, medium, calls>>]_vars

\* An invocation skipped a LOW user whose alert state is stored, and went
\* on to report another user.
C4_Witness ==
    \E p \in Procs :
        /\ \E u \in Decided(p, "LOW") : HasState(u)
        /\ report_rows[p] # <<>>

---------------------------------------------------------------------------
\* positions in calls[p] of the report puts and of the publishes that
\* succeeded
ReportPuts(p) ==
    {k \in DOMAIN calls[p] :
        /\ calls[p][k].op = "put_object"
        /\ calls[p][k].key[1] = "access_review_"
        /\ calls[p][k].ok}

Publishes(p) ==
    {k \in DOMAIN calls[p] : calls[p][k].op = "publish" /\ calls[p][k].ok}

Ended(p) == pc[p] \in {"done", "raised"}

ListedUsers(p) == {users[p][i].UserName : i \in DOMAIN users[p]}

\* C5: a failure while one account is processed (the alert state cannot be
\* read or is malformed, or its write fails) does not end the invocation:
\* once it is over, every listed account has been processed and the report
\* and the summary have been produced.
C5_AccountFailureIsolated ==
    \A p \in Procs :
        (/\ Ended(p)
         /\ exception[p] \in {"should_alert", "get_object", "save_alert_state"})
        => /\ idx[p] > Len(users[p])
           /\ ListedUsers(p) \subseteq {decisions[p][i][1] : i \in DOMAIN decisions[p]}
           /\ ReportPuts(p) # {}
           /\ Publishes(p) # {}

\* C6: an invocation that got past the listing, and whose report put and
\* publish calls are served, has written exactly one report and then
\* published exactly one summary when it is over; with no MEDIUM or HIGH
\* user the report is the header row alone and the summary says "None"
\* under HIGH and MEDIUM with counts 0 and 0.
C6_OneReportThenOneSummary ==
    \A p \in Procs :
        (/\ Ended(p)
         /\ exception[p] \notin {"list_users", "put_report", "publish"})
        => /\ Cardinality(ReportPuts(p)) = 1
           /\ Cardinality(Publishes(p)) = 1
           /\ \A i \in ReportPuts(p) : \A j \in Publishes(p) : i < j
           /\ (\A i \in DOMAIN decisions[p] : decisions[p][i][2] = "LOW")
              => /\ \A i \in ReportPuts(p) : Len(calls[p][i].body) = 1
                 /\ \A j \in Publishes(p) :
                       /\ calls[p][j].body.high_count = 0
                       /\ calls[p][j].body.medium_count = 0
                       /\ calls[p][j].body.high_lines = <<<<"None">>>>
                       /\ calls[p][j].body.medium_lines = <<<<"None">>>>

\* rows of the given severity
RowsOf(p, sev) == {j \in DOMAIN report_rows[p] : report_rows[p][j][3] = sev}

\* C7: when an invocation has completed, the report rows are the users for
\* whom should_alert returned True in it, one row each; every row's user
\* has one line, in the HIGH listing if the row is HIGH and in the MEDIUM
\* listing otherwise; the counts of the summary are the numbers of HIGH and
\* of MEDIUM rows; and the report put in the bucket holds these rows.
C7_ReportMatchesDecisions ==
    \A p \in Procs :
        pc[p] = "done" =>
            /\ RowUsers(p) = Decided(p, "True")
            /\ Cardinality(RowUsers(p)) = Len(report_rows[p])
            /\ \A j \in DOMAIN report_rows[p] :
                  LET r == report_rows[p][j]
                      h == {k \in DOMAIN high[p] : high[p][k][1] = r[1]}
                      m == {k \in DOMAIN medium[p] : medium[p][k][1] = r[1]}
                  IN  /\ r[3] \in {"HIGH", "MEDIUM"}
                      /\ Cardinality(h) = (IF r[3] = "HIGH" THEN 1 ELSE 0)
                      /\ Cardinality(m) = (IF r[3] = "HIGH" THEN 0 ELSE 1)
            /\ Len(high[p]) = Cardinality(RowsOf(p, "HIGH"))
            /\ Len(medium[p]) = Cardinality(RowsOf(p, "MEDIUM"))
            /\ \A k \in Publishes(p) :
                  /\ calls[p][k].body.high_count = Cardinality(RowsOf(p, "HIGH"))
                  /\ calls[p][k].body.medium_count = Cardinality(RowsOf(p, "MEDIUM"))
            /\ \A k \in ReportPuts(p) :
                  /\ Len(calls[p][k].body) = Len(report_rows[p]) + 1
                  /\ \A j \in DOMAIN report_rows[p] :
                        calls[p][k].body[j + 1] = report_rows[p][j]

\* The run of the example: alice, HIGH and without alert state, was
\* reported; bob, MEDIUM with a MEDIUM alert state three days old, was
\* suppressed; the report has alice's row and the summary says 1 HIGH,
\* 0 MEDIUM.
C7_Witness ==
    \E p \in Procs :
        /\ pc[p] = "done"
        /\ decisions[p] = <<<<"alice", "True">>, <<"bob", "False">>>>
        /\ Len(report_rows[p]) = 1
        /\ report_rows[p][1][1] = "alice"
        /\ report_rows[p][1][3] = "HIGH"
        /\ WellFormed("bob")
        /\ stored("bob").severity = "MEDIUM"
        /\ Elapsed("bob") = 3
        /\ \E k \in Publishes(p) :
              /\ calls[p][k].body.high_count = 1
              /\ calls[p][k].body.medium_count = 0

---------------------------------------------------------------------------
\* C8: when the lookup of the alert state fails otherwise than by NoSuchKey
\* (the body is unparsable or lacks a field, or the bucket cannot be
\* reached), should_alert returns neither True nor False: the exception
\* reaches lambda_handler, and neither that step nor any later step of the
\* invocation adds a report row or a summary line or writes an alert state.
C8_LookupFailureSurfaces ==
    [][\A p \in Procs :
          /\ (/\ pc[p] = "should_alert"
              /\ pc'[p] # "should_alert"
              /\ \/ exception'[p] = "get_object"
                 \/ HasState(user(p).UserName) /\ ~WellFormed(user(p).UserName))
             => /\ pc'[p] = "raised"
                /\ exception'[p] \in {"get_object", "should_alert"}
                /\ decisions'[p] = Append(decisions[p], <<user(p).UserName, "Raise">>)
                /\ UNCHANGED <<alerts, reports, report_rows, high, medium>>
          /\ (/\ pc[p] = "raised"
              /\ exception[p] \in {"get_object", "should_alert"})
             => /\ pc'[p] \in {"raised", "idle"}
                /\ UNCHANGED <<alerts, reports>>
                /\ pc'[p] = "raised" => UNCHANGED <<report_rows, high, medium, calls>>]_vars

\* should_alert raised on an unparsable body, for the second user of an
\* invocation that had reported the first.
C8_Witness ==
    \E p \in Procs :
        /\ pc[p] = "raised"
        /\ exception[p] = "should_alert"
        /\ HasState(user(p).UserName)
        /\ ~stored(user(p).UserName).json
        /\ Len(report_rows[p]) = 1
        /\ user(p).UserName \notin RowUsers(p)

\* C9: when iam.list_users() fails the invocation is over at once: nothing
\* is classified, the bucket is neither read nor written, and nothing is
\* published.
C9_ListingFailureAborts ==
    \A p \in Procs :
        exception[p] = "list_users" =>
            /\ pc[p] = "raised"
            /\ users[p] = <<>>
            /\ decisions[p] = <<>>
            /\ report_rows[p] = <<>>
            /\ high[p] = <<>>
            /\ medium[p] = <<>>
            /\ \A k \in DOMAIN calls[p] : calls[p][k].op = "list_users"

\* An invocation whose listing failed, with alert states in the bucket.
C9_Witness ==
    \E p \in Procs :
        /\ pc[p] = "raised"
        /\ exception[p] = "list_users"
        /\ DOMAIN alerts # {}

\* C10: the severity calculate_risk gives for days_unused >= 0 is LOW below
\* 90, MEDIUM from 90 to 179 and HIGH from 180 on.
C10_RiskThresholds ==
    \A p \in Procs :
        severity[p] # "" =>
            /\ days_unused[p] >= 0
            /\ days_unused[p] < 90 => severity[p] = "LOW"
            /\ (90 <= days_unused[p] /\ days_unused[p] < 180) => severity[p] = "MEDIUM"
            /\ days_unused[p] >= 180 => severity[p] = "HIGH"

\* An invocation that reported a user of 180 days as HIGH has classified
\* one of 90 days as MEDIUM: the lower bounds are inclusive.
C10_Witness ==
    \E p \in Procs :
        /\ days_unused[p] = 90
        /\ severity[p] = "MEDIUM"
        /\ \E j \in DOMAIN report_rows[p] :
              report_rows[p][j][2] = 180 /\ report_rows[p][j][3] = "HIGH"

---------------------------------------------------------------------------
\* C11: a user without PasswordLastUsed gets days_unused = 999 and is
\* classified HIGH at whatever time the invocation runs: it is never
\* skipped as LOW, and a row reported for it says 999 days, HIGH.
C11_NeverUsedIsHigh ==
    \A p \in Procs :
        /\ \A i \in DOMAIN decisions[p] :
              "PasswordLastUsed" \notin DOMAIN users[p][i]
                 => decisions[p][i][2] # "LOW"
        /\ (/\ pc[p] \in {"should_alert", "save_alert_state"}
            /\ "PasswordLastUsed" \notin DOMAIN user(p))
              => days_unused[p] = 999 /\ severity[p] = "HIGH"
        /\ \A j \in DOMAIN report_rows[p] :
              (\E i \in DOMAIN users[p] :
                  /\ users[p][i].UserName = report_rows[p][j][1]
                  /\ "PasswordLastUsed" \notin DOMAIN users[p][i])
                 => report_rows[p][j][2] = 999 /\ report_rows[p][j][3] = "HIGH"

\* A user without PasswordLastUsed has been classified HIGH by an
\* invocation that started after the first instant.
C11_Witness ==
    \E p \in Procs :
        /\ pc[p] = "should_alert"
        /\ "PasswordLastUsed" \notin DOMAIN user(p)
        /\ severity[p] = "HIGH"
        /\ now[p] > 0

---------------------------------------------------------------------------
\* users whose alert state an invocation has put (and the bucket accepted)
SavedUsers(p) ==
    {calls[p][k].key[2] :
        k \in {j \in DOMAIN calls[p] :
                  /\ calls[p][j].op = "put_object"
                  /\ calls[p][j].key[1] = ALERT_STATE_PREFIX
                  /\ calls[p][j].ok}}

\* users a summary lists
SummaryUsers(msg) ==
    {msg.high_lines[j][1] :
        j \in {i \in DOMAIN msg.high_lines : Len(msg.high_lines[i]) = 3}}
    \cup {msg.medium_lines[j][1] :
        j \in {i \in DOMAIN msg.medium_lines : Len(msg.medium_lines[i]) = 3}}

\* C12: when an invocation is over, however it ended, every user whose
\* alert state it wrote is listed in a summary it published.
C12_StateOnlyWhenSent ==
    \A p \in Procs :
        Ended(p) =>
            \A u \in SavedUsers(p) :
                \E k \in Publishes(p) : u \in SummaryUsers(calls[p][k].body)

---------------------------------------------------------------------------
\* users whose alert state an invocation has asked the bucket to put
StatePutUsers(p) ==
    {calls[p][k].key[2] :
        k \in {j \in DOMAIN calls[p] :
                  /\ calls[p][j].op = "put_object"
                  /\ calls[p][j].key[1] = ALERT_STATE_PREFIX}}

\* C13: an invocation puts an alert state only for a user for whom
\* should_alert returned True in it, and only once the user's report row
\* and summary line are appended; the bucket's alert states change only in
\* the save_alert_state step of such a user, and in that user's object
\* alone; the should_alert step changes none, so a user for whom it
\* returned False keeps its stored last_alerted and severity.
C13_WriteOnlyAfterEmit ==
    /\ [](\A p \in Procs : \A u \in StatePutUsers(p) :
             /\ u \in Decided(p, "True")
             /\ u \in RowUsers(p)
             /\ u \in LineUsers(p))
    /\ [][/\ \A p \in Procs :
                pc[p] = "should_alert" /\ pc'[p] # "should_alert"
                   => alerts' = alerts
          /\ alerts' # alerts =>
                \E p \in Procs :
                   /\ pc[p] = "save_alert_state"
                   /\ pc'[p] = "loop"
                   /\ user(p).UserName \in Decided(p, "True")
                   /\ \A k \in DOMAIN alerts :
                         k # <<"alerts/", user(p).UserName, ".json">>
                            => k \in DOMAIN alerts' /\ alerts'[k] = alerts[k]]_vars

\* An invocation suppressed one user, whose alert state is still the one
\* found at the start, and wrote the alert state of another.
C13_Witness ==
    \E p \in Procs : \E u \in Decided(p, "False") :
        /\ WellFormed(u)
        /\ stored(u).last_alerted.instant < 0
        /\ SavedUsers(p) # {}
        /\ u \notin SavedUsers(p)

---------------------------------------------------------------------------
\* C15: the bucket holds at most one alert state per user name; a
\* save_alert_state step replaces the user's object by the severity and the
\* time of this emission; and no step removes an alert state, also not
\* when the user is missing from the listing or is LOW.
C15_OneStatePerUser ==
    [][/\ \A k \in DOMAIN alerts : k \in DOMAIN alerts'
       /\ \A k1, k2 \in DOMAIN alerts' : k1[2] = k2[2] => k1 = k2
       /\ \A p \in Procs :
             pc[p] = "save_alert_state" /\ pc'[p] = "loop" =>
                LET k == <<"alerts/", user(p).UserName, ".json">> IN
                /\ DOMAIN alerts' = DOMAIN alerts \cup {k}
                /\ alerts'[k].severity = severity[p]
                /\ alerts'[k].last_alerted = isoformat(clock)
                /\ alerts'[k].json
                /\ alerts'[k].has_last_alerted
                /\ alerts'[k].has_severity]_vars

\* A second invocation has overwritten the alert state the first wrote for
\* one user, while the state of a user it skipped as LOW or did not list
\* is still the one of the start.
C15_Witness ==
    \E p \in Procs : \E u, v \in Usernames :
        /\ invocations = 2
        /\ pc[p] = "done"
        /\ u \in SavedUsers(p)
        /\ WellFormed(u)
        /\ stored(u).last_alerted.instant > 0
        /\ v \notin Decided(p, "True") \cup Decided(p, "False")
        /\ WellFormed(v)
        /\ stored(v).last_alerted.instant < 0

---------------------------------------------------------------------------
\* C16: a report, once written under its date-derived key, is never
\* changed by a later write: no step changes or removes the content stored
\* under a report key that is already in the bucket, also when two
\* invocations start on the same UTC date.
C16_ReportNeverRewritten ==
    [][\A k \in DOMAIN reports :
          /\ k \in DOMAIN reports'
          /\ reports'[k] = reports[k]]_vars

---------------------------------------------------------------------------
\* C17: should_alert returns True only if the user has no stored alert
\* state, or the computed severity is higher than the stored one, or at
\* least SUPPRESSION_DAYS whole days have passed since the stored
\* last_alerted; a severity that went down from HIGH to MEDIUM inside the
\* window does not alert.
C17_TrueOnlyOnIncrease ==
    [][\A p \in Procs :
          (Decides(p) /\ ReturnsTrue(p))
          => \/ ~HasState(user(p).UserName)
             \/ /\ WellFormed(user(p).UserName)
                /\ \/ Rank(severity[p]) > Rank(stored(user(p).UserName).severity)
                   \/ Elapsed(user(p).UserName) >= SUPPRESSION_DAYS]_vars

---------------------------------------------------------------------------
DecidedUsers(p) == {decisions[p][i][1] : i \in DOMAIN decisions[p]}

\* C18: the decision for a user depends only on the user's computed
\* severity, the current time and the user's own alert state, and
\* save_alert_state for a user leaves the alert state of every other user
\* unchanged; hence the set of decisions of an invocation does not depend
\* on the order of the listing: a step of one user's processing changes no
\* other user's alert state, and whatever the position of a user in the
\* listing, the user has a decision once an invocation that got past the
\* listing is over.
C18_OrderIndependent ==
    /\ [][\A p \in Procs :
             Running(p) /\ pc[p] \in {"should_alert", "save_alert_state"} =>
                \A v \in Usernames \ {user(p).UserName} :
                   /\ HasState(v)' = HasState(v)
                   /\ HasState(v) => stored(v)' = stored(v)]_vars
    /\ [](\A p \in Procs :
             (Ended(p) /\ exception[p] # "list_users")
             => DecidedUsers(p) = ListedUsers(p))

---------------------------------------------------------------------------
(* Invocations a suppression window apart *)

\* The bucket holds no alert state at the start, or unparsable ones
InitWindow ==
    /\ Init
    /\ \A k \in DOMAIN alerts : alerts[k] = Unparsable

\* No invocation is under way and one tick less than the suppression
\* window passes
Sleep ==
    /\ \A p \in Procs : pc[p] = "idle"
    /\ clock <= MaxClock
    /\ clock' = clock + SUPPRESSION_DAYS * TicksPerDay - 1
    /\ UNCHANGED <<alerts, reports, invocations, pc, now, users, idx,
                   days_unused, severity, high, medium, report_rows, exception,
                   decisions, calls>>

NextWindow ==
    \/ Next
    \/ Sleep

SpecWindow == InitWindow /\ [][NextWindow]_vars

\* C14: over invocations that do not overlap, two consecutive alerts for
\* one user at the same severity lie at least SUPPRESSION_DAYS whole days
\* apart: when should_alert returns True for a user whose stored alert
\* state (the record of the previous alert) has the computed severity, at
\* least SUPPRESSION_DAYS whole days lie between the stored last_alerted
\* and the time of the decision.
C14_EmissionsWindowApart ==
    [][\A p \in Procs :
          (/\ Decides(p)
           /\ ReturnsTrue(p)
           /\ WellFormed(user(p).UserName)
           /\ stored(user(p).UserName).severity = severity[p])
          => Elapsed(user(p).UserName) >= SUPPRESSION_DAYS]_vars

\* The second invocation alerts again for a user, at the severity and
\* SUPPRESSION_DAYS whole days after the alert state an earlier invocation
\* of this behaviour wrote.
C14_Witness ==
    \E p \in Procs :
        /\ invocations = 2
        /\ pc[p] = "save_alert_state"
        /\ WellFormed(user(p).UserName)
        /\ stored(user(p).UserName).last_alerted.instant >= 0
        /\ stored(user(p).UserName).severity = severity[p]
        /\ Elapsed(user(p).UserName) = SUPPRESSION_DAYS

---------------------------------------------------------------------------
(* Invocations that overlap *)

\* An invocation may start while another is under way (a manual or
\* retried invocation next to the scheduled one); the calls to IAM, S3
\* and SNS are all served
NextOverlap ==
    \/ Tick
    \/ \E p \in Procs :
        \/ Invoke(p)
        \/ ListUsers(p)
        \/ SkipLow(p)
        \/ Classify(p)
        \/ AlertTrue(p)
        \/ AlertFalse(p)
        \/ AlertRaise(p)
        \/ SaveAlertState(p)
        \/ WriteReport(p)
        \/ Publish(p)
        \/ Return(p)

SpecOverlap == InitWindow /\ [][NextOverlap]_vars

\* the bodies invocation p has put under username's alert-state key
PutBodies(p, username) ==
    {calls[p][k].body : k \in {j \in DOMAIN calls[p] :
                                  /\ calls[p][j].op = "put_object"
                                  /\ calls[p][j].ok
                                  /\ calls[p][j].key = _alert_state_key(username)}}

\* C19: with invocations that overlap, alert state writes are
\* last-writer-wins with no conflict detection: a save_alert_state step of
\* an invocation that decided True stores this invocation's severity and
\* time under the user's key whatever the bucket holds by then, also over
\* the state another invocation wrote after this one had read, and
\* changes nothing else in the bucket.
C19_LastWriterWins ==
    [][\A p \in Procs :
          (pc[p] = "save_alert_state" /\ pc'[p] = "loop") =>
             LET key == <<"alerts/", user(p).UserName, ".json">> IN
             /\ user(p).UserName \in Decided(p, "True")
             /\ DOMAIN alerts' = DOMAIN alerts \cup {key}
             /\ alerts'[key] = AlertState(clock, severity[p])
             /\ \A k \in DOMAIN alerts : k # key => alerts'[k] = alerts[k]]_vars

\* Two invocations that were under way together have both alerted for the
\* same user at the same severity, a tick apart, and are both over with
\* their summaries published; the bucket holds the state of the later
\* writer.
C19_Witness ==
    \E p, q \in Procs : \E u \in Usernames :
        /\ p # q
        /\ pc[p] = "done"
        /\ pc[q] = "done"
        /\ \E bp \in PutBodies(p, u) : \E bq \in PutBodies(q, u) :
              /\ bp.severity = bq.severity
              /\ bp.last_alerted.instant < bq.last_alerted.instant
              /\ Days(bq.last_alerted.instant, bp.last_alerted.instant) < SUPPRESSION_DAYS
              /\ stored(u) = bq

---------------------------------------------------------------------------
(* The daily schedule, with every call served *)

\* The severity each user keeps over the days of the schedule
SteadySeverity(username) == IF username = "alice" THEN "HIGH" ELSE "MEDIUM"

\* iam.list_users() responses at instant t that list every user at the
\* user's steady severity
SteadyListings(t) ==
    {l \in Listings :
        /\ Len(l) = Cardinality(Usernames)
        /\ \A i \in DOMAIN l :
              calculate_risk(IF "PasswordLastUsed" \notin DOMAIN l[i]
                             THEN 999
                             ELSE Days(t, l[i].PasswordLastUsed))[1]
                 = SteadySeverity(l[i].UserName)}

\* The alert states in the bucket at the start are ones save_alert_state
\* wrote
InitPeriodic ==
    /\ Init
    /\ \A k \in DOMAIN alerts :
          /\ alerts[k].json
          /\ alerts[k].has_last_alerted
          /\ alerts[k].last_alerted.iso
          /\ alerts[k].has_severity

\* The rule fires at 00:00 UTC of the next day and the function is
\* invoked: now = datetime.now(utc)
Scheduled(p) ==
    /\ \A q \in Procs : pc[q] = "idle"
    /\ \A q \in Procs : q >= p
    /\ clock < MaxDays * TicksPerDay
    /\ clock' = (clock \div TicksPerDay + 1) * TicksPerDay
    /\ now' = [now EXCEPT ![p] = (clock \div TicksPerDay + 1) * TicksPerDay]
    /\ pc' = [pc EXCEPT ![p] = "list_users"]
    /\ UNCHANGED <<alerts, reports, invocations, users, idx, days_unused,
                   severity, high, medium, report_rows, exception, decisions,
                   calls>>

NextPeriodic ==
    \E p \in Procs :
        \/ Scheduled(p)
        \/ ListUsers(p) /\ users'[p] \in SteadyListings(now[p])
        \/ Classify(p)
        \/ AlertTrue(p)
        \/ AlertFalse(p)
        \/ SaveAlertState(p)
        \/ WriteReport(p)
        \/ Publish(p)
        \/ Return(p)

\* The rule fires every day and an invocation runs to its end
SpecPeriodic == InitPeriodic /\ [][NextPeriodic]_vars /\ WF_vars(NextPeriodic)

\* last_alerted instants an alert state may hold
Instants == (0 - SUPPRESSION_DAYS * TicksPerDay)..(MaxDays * TicksPerDay)

\* an invocation has just suppressed username, whose stored last_alerted is
\* t, and the schedule still has a day SUPPRESSION_DAYS whole days after t
SuppressedAt(username, t) ==
    /\ WellFormed(username)
    /\ stored(username).last_alerted.instant = t
    /\ t + SUPPRESSION_DAYS * TicksPerDay <= MaxDays * TicksPerDay
    /\ \E p \in Procs :
          /\ decisions[p] # <<>>
          /\ decisions[p][Len(decisions[p])] = <<username, "False">>

\* should_alert has returned True for username against the stored
\* last_alerted t, SUPPRESSION_DAYS whole days later
EmitsAgainAfter(username, t) ==
    \E p \in Procs :
        /\ pc[p] = "save_alert_state"
        /\ user(p).UserName = username
        /\ WellFormed(username)
        /\ stored(username).last_alerted.instant = t
        /\ stored(username).severity = severity[p]
        /\ Elapsed(username) = SUPPRESSION_DAYS

\* C20: with daily invocations that do not overlap and whose calls are all
\* served, a user who stays at the same MEDIUM or HIGH severity is alerted
\* again eventually: a suppressed decision leaves last_alerted as it is,
\* and the first invocation that decides SUPPRESSION_DAYS whole days after
\* the stored last_alerted alerts again.
C20_ReAlertedEventually ==
    \A u \in Usernames : \A t \in Instants :
        SuppressedAt(u, t) ~> EmitsAgainAfter(u, t)

\* A user is alerted again SUPPRESSION_DAYS days after the alert state an
\* invocation of the schedule wrote, with the invocations of the days
\* between suppressed.
C20_Witness ==
    \E u \in Usernames : \E t \in 1..(MaxDays * TicksPerDay) :
        /\ EmitsAgainAfter(u, t)
        /\ clock = t + SUPPRESSION_DAYS * TicksPerDay

===========================================================================
